---- MODULE Spec2Model ----
(***************************************************************************)
(* derive-attribute: decoding of attribute metadata into typed records.    *)
(*                                                                         *)
(* The model follows derive-attribute-utils/src/shared.rs (ArgResult,      *)
(* Concat, TryFromMeta, required_validation, Attribute::from_attrs), the   *)
(* two adapters syn_1.rs / syn_2.rs, and the code that the derive macros   *)
(* of derive-attribute-macros/src/lib.rs generate for a declared struct.   *)
(*                                                                         *)
(* Data representation                                                     *)
(*   Option<T>        a sequence of length 0 (None) or 1 (Some(v))         *)
(*   Span             a tuple of naturals (position of the node)           *)
(*   type             a tuple of names, outermost first:                   *)
(*                    <<"Option", "Vec", "String">> is Option<Vec<String>> *)
(*   f32 / f64 value  an integer number of tenths (1.5 is 15)              *)
(*   a panic          the record [panic |-> message]                       *)
(***************************************************************************)
EXTENDS Integers, Sequences, FiniteSets, TLC

\* ------------------------------------------------------------------------
\* Option
\* ------------------------------------------------------------------------
None == <<>>
Some(v) == <<v>>
is_some(o) == Len(o) > 0
is_none(o) == Len(o) = 0
unwrap(o) == o[1]

Panic(message) == [panic |-> message]
IsPanic(r) == "panic" \in DOMAIN r

\* ------------------------------------------------------------------------
\* ErrorMsg, Error (shared.rs 6-41)
\* ------------------------------------------------------------------------
FailedToParseAttr == [kind |-> "FailedToParseAttr", arg |-> ""]
InvalidItem == [kind |-> "InvalidItem", arg |-> ""]
MissingAttribute(name) == [kind |-> "MissingAttribute", arg |-> name]
MissingArg(name) == [kind |-> "MissingArg", arg |-> name]
InvalidType(expected) == [kind |-> "InvalidType", arg |-> expected]
DuplicateArg == [kind |-> "DuplicateArg", arg |-> ""]
InvalidArg == [kind |-> "InvalidArg", arg |-> ""]

Error_new(location, msg) == [msg |-> msg, location |-> location]

\* a node that carries no position
NoSpan == <<>>

\* ------------------------------------------------------------------------
\* ArgResult (shared.rs 85-121)
\* ------------------------------------------------------------------------
ArgResult_new(location) == [value |-> None, errors |-> <<>>, location |-> location]

\* an add_error that does not use the stored Span
add_error_unlocated(self, msg) ==
    [self EXCEPT !.errors = Append(@, Error_new(NoSpan, msg))]

add_error(self, msg) ==
    [self EXCEPT !.errors = Append(@, Error_new(self.location, msg))]

add_value(self, value) == [self EXCEPT !.value = Some(value)]

add_result(self, value) ==
    IF value.tag = "Ok" THEN add_value(self, value.val) ELSE add_error(self, value.msg)

is_found(self) == Len(self.errors) > 0 \/ is_some(self.value)
found_with_errors(self) == Len(self.errors) > 0
found_with_value(self) == is_some(self.value)

\* ------------------------------------------------------------------------
\* Metadata handed over by the adapters.
\*   Expr : the right-hand side of `key = value`
\*   Meta : one argument of an attribute (NestedMeta for Syn1, Meta for Syn2)
\*   Attr : one attribute of the annotated item
\* ------------------------------------------------------------------------
Expr(kind, s, n, b, elems) ==
    [kind |-> kind, s |-> s, n |-> n, b |-> b, elems |-> elems, span |-> NoSpan]
LitStr(s) == Expr("Str", s, 0, FALSE, <<>>)
LitInt(n) == Expr("Int", "", n, FALSE, <<>>)
LitFloat(tenths) == Expr("Float", "", tenths, FALSE, <<>>)
LitBool(b) == Expr("Bool", "", 0, b, <<>>)
ExprArray(elems) == Expr("Array", "", 0, FALSE, elems)
ExprOther == Expr("Other", "", 0, FALSE, <<>>)
NoExpr == Expr("None", "", 0, FALSE, <<>>)

Meta(shape, path, value, args) ==
    [shape |-> shape, path |-> path, value |-> value, args |-> args, span |-> NoSpan]
NameValue(key, value) == Meta("NameValue", <<key>>, value, <<>>)
NameValueAt(path, value) == Meta("NameValue", path, value, <<>>)
Path(key) == Meta("Path", <<key>>, NoExpr, <<>>)
List(key, args) == Meta("List", <<key>>, NoExpr, args)
BareLit(value) == Meta("Lit", <<>>, value, <<>>)

Attr(shape, path, args) == [shape |-> shape, path |-> path, args |-> args, span |-> NoSpan]

\* Path::get_ident: Some only for a single-segment path
get_ident(path) == IF Len(path) = 1 THEN Some(path[1]) ELSE None

\* ------------------------------------------------------------------------
\* Declared types.  The integer types carry their range (FromStr fails
\* outside it); the struct types carry their declared fields.
\* ------------------------------------------------------------------------
IntegerTypes == {"u8", "i8", "u16", "i16", "i32"}
FloatTypes == {"f32", "f64"}

\* <T as FromStr>::from_str on the digits of an integer literal
IntMin(t) ==
    CASE t \in {"u8", "u16"} -> 0
      [] t = "i8" -> -128
      [] t = "i16" -> -32768
      [] OTHER -> -2147483647 - 1
IntMax(t) ==
    CASE t = "u8" -> 255
      [] t = "i8" -> 127
      [] t = "u16" -> 65535
      [] t = "i16" -> 32767
      [] OTHER -> 2147483647

\* LitInt::base10_parse::<T>(): the digits parsed by T::from_str.  A float
\* type accepts integer digits ("1" parses to 1.0, ten tenths).
base10_parse_int(t, n) ==
    IF t \in FloatTypes THEN Some(n * 10)
    ELSE IF n >= IntMin(t) /\ n <= IntMax(t) THEN Some(n) ELSE None

\* LitFloat::base10_parse::<T>(): an integer type rejects digits with a
\* fractional part.
base10_parse_float(t, tenths) ==
    IF t \in FloatTypes THEN Some(tenths) ELSE None

\* ------------------------------------------------------------------------
\* SynVersion adapters (syn_1.rs, syn_2.rs).  V is "Syn1" or "Syn2".
\* ------------------------------------------------------------------------
IsLit(meta, kind) == meta.shape = "NameValue" /\ meta.value.kind = kind

\* The literals of syn: the only values syn 1 accepts in `key = value`.
LitKinds == {"Str", "Int", "Float", "Bool"}

\* Syn1: Attribute::parse_meta parses the whole attribute, nested lists
\* included, and fails when the value of a `key = value` is not a literal
\* (an array, a path, any other expression); a bare literal is a nested
\* item of its own.
RECURSIVE Syn1Parses(_)
Syn1Parses(args) ==
    \A j \in 1..Len(args) :
        /\ args[j].shape = "NameValue" => args[j].value.kind \in LitKinds
        /\ args[j].shape = "List" => Syn1Parses(args[j].args)

\* Syn2 parses the tokens between the parentheses as Metas separated by
\* commas, one level at a time, which fails on a bare literal; the value of
\* a `key = value` is any expression.
ParsesAsMetas(V, args) ==
    IF V = "Syn1" THEN Syn1Parses(args)
    ELSE \A j \in 1..Len(args) : args[j].shape /= "Lit"

deserialize_attr_args(V, attr) ==
    IF attr.shape = "List" /\ ParsesAsMetas(V, attr.args) THEN Some(attr.args) ELSE None

\* Syn1: the nested items of a list were parsed with the attribute
deserialize_list_args(V, meta) ==
    IF meta.shape = "List" /\ (V = "Syn1" \/ ParsesAsMetas(V, meta.args))
    THEN Some(meta.args) ELSE None

deserialize_bool(V, meta) ==
    IF IsLit(meta, "Bool") THEN Some(meta.value.b)
    ELSE IF meta.shape = "Path" THEN Some(TRUE)
    ELSE None

deserialize_attr_key(V, attr) == get_ident(attr.path)

deserialize_key(V, meta) ==
    IF V = "Syn1"
    THEN IF meta.shape = "NameValue" THEN get_ident(meta.path) ELSE None
    ELSE get_ident(meta.path)

deserialize_integer(V, t, meta) ==
    IF IsLit(meta, "Int") THEN base10_parse_int(t, meta.value.n) ELSE None

deserialize_float(V, t, meta) ==
    IF IsLit(meta, "Float") THEN base10_parse_float(t, meta.value.n) ELSE None

deserialize_string(V, meta) ==
    IF IsLit(meta, "Str") THEN Some(meta.value.s) ELSE None

\* Syn2 wraps every element e of the array in `_ = e`, spanned at e.
ArrayElement(e) ==
    [shape |-> "NameValue", path |-> <<"_">>, value |-> e, args |-> <<>>, span |-> e.span]

\* Syn1: unimplemented!() panics whatever the node is.
deserialize_array(V, meta) ==
    IF V = "Syn1"
    THEN Panic("not implemented: Parsing arrays/vectors is not implemented for Syn 1")
    ELSE [ret |->
            IF IsLit(meta, "Array")
            THEN Some([j \in 1..Len(meta.value.elems) |-> ArrayElement(meta.value.elems[j])])
            ELSE None]

\* Error -> syn Error: the span and the Display text of the message
Display(msg) ==
    CASE msg.kind = "FailedToParseAttr" -> <<"Failed to Parse Attribute: expected list of key/value pairs EX) ATTR_NAME(x = 1) and/or booleans EX) ATTR_NAME(is_x)">>
      [] msg.kind = "InvalidItem" -> <<"Invalid Item: expected struct">>
      [] msg.kind = "MissingAttribute" -> <<"Missing Attribute: attribute '", msg.arg, "' is required">>
      [] msg.kind = "MissingArg" -> <<"Missing Argument: '", msg.arg, "' is required">>
      [] msg.kind = "InvalidType" -> <<"Invalid Type: expected ", msg.arg>>
      [] msg.kind = "DuplicateArg" -> <<"Duplicate Argument">>
      [] OTHER -> <<"Invalid Argument">>

convert_error(V, error) == [span |-> error.location, message |-> Display(error.msg)]

\* ------------------------------------------------------------------------
\* Declared structs.  A field is declared by its identifier, the key it is
\* matched under (`#[attr(name = "...")]`, else the identifier), its type and
\* its `#[attr(default)]`.
\* ------------------------------------------------------------------------
Field(ident, key, ty, default) == [ident |-> ident, key |-> key, ty |-> ty, default |-> default]

\* The structs the derive macros are applied to:
\*   #[derive(Attribute)] #[attr(name = "my_attr")]
\*   struct AllKinds { name: Option<String>, age: u8, tags: Vec<String>,
\*                     flag: bool, ratio: f32, list: Option<MyList> }
\*   #[derive(Attribute)] #[attr(name = "my_attr")]
\*   struct Tags { tags: Vec<String>, name: Option<String> }
\*   #[derive(List)]
\*   struct MyList { a: u8 }
\*   #[derive(Attribute, Default)] #[attr(name = "my_attr")]
\*   struct Strict { #[attr(name = "n")] level: u8, #[attr(default)] size: u8,
\*                   list: MyList }
\*   #[derive(Attribute, Default)] #[attr(name = "my_attr", default)]
\*   struct Config { #[attr(name = "n")] level: u8, #[attr(default)] size: u8,
\*                   list: Option<MyList> }
Structs == {"AllKinds", "Tags", "MyList", "Strict", "Config"}

Fields(S) ==
    CASE S = "AllKinds" ->
            << Field("name", "name", <<"Option", "String">>, "None"),
               Field("age", "age", <<"u8">>, "None"),
               Field("tags", "tags", <<"Vec", "String">>, "None"),
               Field("flag", "flag", <<"bool">>, "None"),
               Field("ratio", "ratio", <<"f32">>, "None"),
               Field("list", "list", <<"Option", "MyList">>, "None") >>
      [] S = "Tags" ->
            << Field("tags", "tags", <<"Vec", "String">>, "None"),
               Field("name", "name", <<"Option", "String">>, "None") >>
      [] S = "Strict" ->
            << Field("level", "n", <<"u8">>, "None"),
               Field("size", "size", <<"u8">>, "UseSelfDefault"),
               Field("list", "list", <<"MyList">>, "None") >>
      [] S = "Config" ->
            << Field("level", "n", <<"u8">>, "None"),
               Field("size", "size", <<"u8">>, "UseSelfDefault"),
               Field("list", "list", <<"Option", "MyList">>, "None") >>
      [] OTHER ->
            << Field("a", "a", <<"u8">>, "None") >>

Idents(S) == {Fields(S)[j].ident : j \in 1..Len(Fields(S))}
FieldOf(S, ident) == CHOOSE f \in {Fields(S)[j] : j \in 1..Len(Fields(S))} : f.ident = ident

\* derive(Attribute) decodes an attribute, derive(List) a nested list
IsAttribute(S) == S \in {"AllKinds", "Tags", "Strict", "Config"}
\* AttributeName::NAME
NAME(S) == IF IsAttribute(S) THEN "my_attr" ELSE ""
\* a struct declaration without the container-level default
ContainerDefault_none(S) == "None"

\* container-level #[attr(default)]
ContainerDefault(S) == IF S = "Config" THEN "UseSelfDefault" ELSE "None"

\* TryFromMeta::InitialType: Option<T> has the InitialType of T
RECURSIVE InitialType(_)
InitialType(ty) == IF Head(ty) = "Option" THEN InitialType(Tail(ty)) ELSE ty

\* a Concat whose NO_DUPLICATES is the default, true, for every type
NO_DUPLICATES_default(ty) == TRUE

\* a Concat whose NO_DUPLICATES is false for every type
NO_DUPLICATES_false(ty) == FALSE

\* Concat::NO_DUPLICATES of the InitialType (default true; Vec and the
\* generated builders set it to false)
NO_DUPLICATES(ty) ==
    LET k == Head(InitialType(ty)) IN ~(k = "Vec" \/ k \in Structs)

\* ------------------------------------------------------------------------
\* Concat (shared.rs 44-80, 254-260; macros lib.rs 160-166)
\* ------------------------------------------------------------------------
RECURSIVE concat(_, _, _), ArgResult_concat(_, _, _)

\* a merge of leaf values that keeps the stored instance
default_concat_keeps_self(self, other) == self

\* default Concat::concat
default_concat(self, other) == other

\* a merge of lists that overwrites like the default one
Vec_concat_overwrites(self, other) == other

\* impl Concat for Vec<T>
Vec_concat(self, other) == self \o other

\* Concat of a value of the InitialType of ty
concat(ty, self, other) ==
    LET k == Head(InitialType(ty)) IN
    IF k = "Vec" THEN Vec_concat(self, other)
    ELSE IF k \in Structs
    THEN [f \in Idents(k) |-> ArgResult_concat(FieldOf(k, f).ty, self[f], other[f])]
    ELSE default_concat(self, other)

\* a merge that replaces the stored errors by those of the other state
ArgResult_concat_replaces_errors(ty, self, other) ==
    LET s1 == IF is_found(other)
              THEN LET moved == [self EXCEPT !.location = other.location] IN
                   IF is_found(moved) /\ NO_DUPLICATES(ty)
                   THEN add_error(moved, DuplicateArg)
                   ELSE moved
              ELSE self
        s2 == IF found_with_errors(other)
              THEN [s1 EXCEPT !.errors = other.errors]
              ELSE s1
    IN  IF found_with_value(other)
        THEN IF is_some(s2.value)
             THEN [s2 EXCEPT !.value = Some(concat(ty, unwrap(s2.value), unwrap(other.value)))]
             ELSE [s2 EXCEPT !.value = other.value]
        ELSE s2

\* a merge that records the duplicate before it adopts the location
ArgResult_concat_late_location(ty, self, other) ==
    LET s1 == IF is_found(other)
              THEN LET marked == IF is_found(self) /\ NO_DUPLICATES(ty)
                                 THEN add_error(self, DuplicateArg)
                                 ELSE self
                   IN  [marked EXCEPT !.location = other.location]
              ELSE self
        s2 == IF found_with_errors(other)
              THEN [s1 EXCEPT !.errors = @ \o other.errors]
              ELSE s1
    IN  IF found_with_value(other)
        THEN IF is_some(s2.value)
             THEN [s2 EXCEPT !.value = Some(concat(ty, unwrap(s2.value), unwrap(other.value)))]
             ELSE [s2 EXCEPT !.value = other.value]
        ELSE s2

\* impl Concat for ArgResult<T>, T the InitialType of ty
ArgResult_concat(ty, self, other) ==
    LET s1 == IF is_found(other)
              THEN LET moved == [self EXCEPT !.location = other.location] IN
                   IF is_found(moved) /\ NO_DUPLICATES(ty)
                   THEN add_error(moved, DuplicateArg)
                   ELSE moved
              ELSE self
        s2 == IF found_with_errors(other)
              THEN [s1 EXCEPT !.errors = @ \o other.errors]
              ELSE s1
    IN  IF found_with_value(other)
        THEN IF is_some(s2.value)
             THEN [s2 EXCEPT !.value = Some(concat(ty, unwrap(s2.value), unwrap(other.value)))]
             ELSE [s2 EXCEPT !.value = other.value]
        ELSE s2

\* ------------------------------------------------------------------------
\* TryFromMeta::try_from_meta (phase a)
\* ------------------------------------------------------------------------
get_span(meta) == meta.span

String_try_from_meta(V, meta) ==
    LET result == ArgResult_new(get_span(meta))
        maybe_string == deserialize_string(V, meta)
    IN  IF is_some(maybe_string)
        THEN add_value(result, unwrap(maybe_string))
        ELSE add_error(result, InvalidType("string"))

bool_try_from_meta(V, meta) ==
    LET result == ArgResult_new(get_span(meta))
        maybe_bool == deserialize_bool(V, meta)
    IN  IF is_some(maybe_bool)
        THEN add_value(result, unwrap(maybe_bool))
        ELSE add_error(result, InvalidType("boolean"))

\* impl_integer!
integer_try_from_meta(V, t, meta) ==
    LET result == ArgResult_new(get_span(meta))
        maybe_int == deserialize_integer(V, t, meta)
    IN  IF is_some(maybe_int)
        THEN add_value(result, unwrap(maybe_int))
        ELSE add_error(result, InvalidType(t))

\* impl_float!: the extraction called is deserialize_integer
float_try_from_meta(V, t, meta) ==
    LET result == ArgResult_new(get_span(meta))
        maybe_int == deserialize_integer(V, t, meta)
    IN  IF is_some(maybe_int)
        THEN add_value(result, unwrap(maybe_int))
        ELSE add_error(result, InvalidType(t))

Builder_new(S, location) == [f \in Idents(S) |-> ArgResult_new(location)]

\* a match whose first branch takes every key
MatchBranch_first(S, key) == Some(Fields(S)[1])

\* the match on the key: the branch of the first field declared under it
MatchBranch(S, key) ==
    LET js == {j \in 1..Len(Fields(S)) : Fields(S)[j].key = key} IN
    IF js = {} THEN None
    ELSE Some(Fields(S)[CHOOSE j \in js : \A i \in js : j <= i])

RECURSIVE try_from_meta(_, _, _), Vec_elements(_, _, _, _, _),
          struct_try_from_meta(_, _, _), struct_args(_, _, _, _, _)

\* the loop of Vec<T>::try_from_meta over the array; values is the local
\* vector pushed to
Vec_elements(V, ty, array, j, values) ==
    IF j > Len(array) THEN [values |-> values]
    ELSE LET element == try_from_meta(V, ty, array[j]) IN
         IF IsPanic(element) THEN element
         ELSE Vec_elements(V, ty, array, j + 1, Append(values, element))

\* impl TryFromMeta for Vec<T>, ty = T
Vec_try_from_meta(V, ty, meta) ==
    LET result == ArgResult_new(get_span(meta))
        array == deserialize_array(V, meta)
    IN  IF IsPanic(array) THEN array
        ELSE IF is_none(array.ret) THEN add_error(result, InvalidType("array"))
        ELSE LET r == Vec_elements(V, ty, unwrap(array.ret), 1, <<>>) IN
             IF IsPanic(r) THEN r ELSE add_value(result, r.values)

\* the loop over the arguments in the generated try_from_meta; st holds the
\* local variables result and builder
struct_args(V, S, attribute_args, j, st) ==
    IF j > Len(attribute_args) THEN st
    ELSE LET arg == attribute_args[j]
             key == deserialize_key(V, arg)
         IN  IF is_none(key) THEN Panic("key failed")
             ELSE LET branch == MatchBranch(S, unwrap(key)) IN
                  IF is_none(branch)
                  THEN struct_args(V, S, attribute_args, j + 1,
                          [st EXCEPT !.result.errors =
                              Append(@, Error_new(get_span(arg), InvalidArg))])
                  ELSE LET f == unwrap(branch)
                           value == try_from_meta(V, f.ty, arg)
                       IN  IF IsPanic(value) THEN value
                           ELSE struct_args(V, S, attribute_args, j + 1,
                                   [st EXCEPT !.builder[f.ident] =
                                       ArgResult_concat(f.ty, @, value)])

\* a try_from_meta that records the error and still decodes the children
struct_try_from_meta_goes_on(V, S, arg_meta) ==
    LET result == ArgResult_new(get_span(arg_meta))
        builder == Builder_new(S, get_span(arg_meta))
        attribute_args == IF IsAttribute(S) THEN deserialize_attr_args(V, arg_meta)
                          ELSE deserialize_list_args(V, arg_meta)
        start == IF is_none(attribute_args) THEN add_error(result, InvalidType("list"))
                 ELSE result
        st == struct_args(V, S, arg_meta.args, 1, [result |-> start, builder |-> builder])
    IN  IF IsPanic(st) THEN st ELSE add_value(st.result, st.builder)

\* generate_try_from_meta: try_from_meta of a derived struct S
struct_try_from_meta(V, S, arg_meta) ==
    LET result == ArgResult_new(get_span(arg_meta))
        builder == Builder_new(S, get_span(arg_meta))
        attribute_args == IF IsAttribute(S) THEN deserialize_attr_args(V, arg_meta)
                          ELSE deserialize_list_args(V, arg_meta)
    IN  IF is_none(attribute_args) THEN add_error(result, InvalidType("list"))
        ELSE LET st == struct_args(V, S, unwrap(attribute_args), 1,
                                   [result |-> result, builder |-> builder])
             IN  IF IsPanic(st) THEN st ELSE add_value(st.result, st.builder)

\* T::try_from_meta for the declared type ty
try_from_meta(V, ty, meta) ==
    LET k == Head(ty) IN
    CASE k = "Option" -> try_from_meta(V, Tail(ty), meta)
      [] k = "Vec" -> Vec_try_from_meta(V, Tail(ty), meta)
      [] k = "String" -> String_try_from_meta(V, meta)
      [] k = "bool" -> bool_try_from_meta(V, meta)
      [] k \in IntegerTypes -> integer_try_from_meta(V, k, meta)
      [] k \in FloatTypes -> float_try_from_meta(V, k, meta)
      [] OTHER -> struct_try_from_meta(V, k, meta)

\* ------------------------------------------------------------------------
\* TryFromMeta::validate (phase b).  A result is Ok(value), Err(errors) or
\* a panic raised by an `expect`.
\* ------------------------------------------------------------------------
Ok(v) == [tag |-> "Ok", val |-> v]
Err(errors) == [tag |-> "Err", errors |-> errors]
Panicked(message) == [tag |-> "Panic", panic |-> message]

\* a required rule that returns the stored value whatever the errors
required_validation_prefers_value(state, arg_name) ==
    IF is_some(state.value) THEN Ok(unwrap(state.value))
    ELSE IF found_with_errors(state) THEN Err(state.errors)
    ELSE Err(add_error(state, MissingArg(arg_name)).errors)

\* a required rule that fails on a missing argument without recording it
required_validation_silent(state, arg_name) ==
    IF found_with_errors(state) THEN Err(state.errors)
    ELSE IF is_none(state.value) THEN Err(state.errors)
    ELSE Ok(unwrap(state.value))

\* required_validation (shared.rs 191-201)
required_validation(state, arg_name) ==
    IF found_with_errors(state) THEN Err(state.errors)
    ELSE IF is_none(state.value) THEN Err(add_error(state, MissingArg(arg_name)).errors)
    ELSE Ok(unwrap(state.value))

\* impl TryFromMeta for bool: validate
bool_validate(state, arg_name) ==
    IF found_with_errors(state) THEN Err(state.errors)
    ELSE IF is_none(state.value) THEN Ok(FALSE)
    ELSE Ok(unwrap(state.value))

\* <T as Default>::default()
RECURSIVE DefaultValue(_)
DefaultValue(ty) ==
    LET k == Head(ty) IN
    CASE k = "Option" -> None
      [] k = "Vec" -> <<>>
      [] k = "String" -> ""
      [] k = "bool" -> FALSE
      [] k \in IntegerTypes \cup FloatTypes -> 0
      [] OTHER -> [f \in Idents(k) |-> DefaultValue(FieldOf(k, f).ty)]

RECURSIVE validate(_, _, _), Vec_validate_loop(_, _, _, _, _),
          struct_validate(_, _, _), validate_arguments(_, _, _, _, _)

\* the loop of Vec<T>::validate over the elements; st holds state.errors and y
Vec_validate_loop(ty, values, arg_name, j, st) ==
    IF j > Len(values) THEN st
    ELSE LET x == validate(ty, values[j], arg_name) IN
         IF x.tag = "Panic" THEN x
         ELSE IF x.tag = "Err"
         THEN Vec_validate_loop(ty, values, arg_name, j + 1,
                                [st EXCEPT !.errors = @ \o x.errors])
         ELSE Vec_validate_loop(ty, values, arg_name, j + 1,
                                [st EXCEPT !.y = Append(@, x.val)])

\* a validation of lists that returns the valid elements whatever the errors
Vec_validate_keeps_valid(ty, state, arg_name) ==
    IF found_with_errors(state) THEN Err(state.errors)
    ELSE IF is_none(state.value) THEN Err(add_error(state, MissingArg(arg_name)).errors)
    ELSE LET st == Vec_validate_loop(ty, unwrap(state.value), arg_name, 1,
                                     [tag |-> "Loop", errors |-> state.errors, y |-> <<>>])
         IN  IF st.tag = "Panic" THEN st ELSE Ok(st.y)

\* impl TryFromMeta for Vec<T>: validate, ty = T
Vec_validate(ty, state, arg_name) ==
    IF found_with_errors(state) THEN Err(state.errors)
    ELSE IF is_none(state.value) THEN Err(add_error(state, MissingArg(arg_name)).errors)
    ELSE LET st == Vec_validate_loop(ty, unwrap(state.value), arg_name, 1,
                                     [tag |-> "Loop", errors |-> state.errors, y |-> <<>>])
         IN  IF st.tag = "Panic" THEN st
             ELSE IF Len(st.errors) = 0 THEN Ok(st.y) ELSE Err(st.errors)

\* a validation of Option<T> that requires the argument as T does
Option_validate_required(ty, state, arg_name) ==
    IF is_some(state.value)
    THEN LET r == validate(ty, state, arg_name) IN
         IF r.tag = "Ok" THEN Ok(Some(r.val)) ELSE r
    ELSE required_validation(state, arg_name)

\* impl TryFromMeta for Option<T>: validate, ty = T
Option_validate(ty, state, arg_name) ==
    IF is_some(state.value)
    THEN LET r == validate(ty, state, arg_name) IN
         IF r.tag = "Ok" THEN Ok(Some(r.val)) ELSE r
    ELSE IF found_with_errors(state) THEN Err(state.errors)
    ELSE Ok(None)

\* a validation that takes the default whenever no value is stored
validate_field_default_without_value(f, builder) ==
    IF f.default = "UseSelfDefault" /\ is_none(builder[f.ident].value)
    THEN Ok(DefaultValue(f.ty))
    ELSE validate(f.ty, builder[f.ident], f.ident)

\* check_field, validate_field: the validation generated for one field
validate_field(f, builder) ==
    IF f.default = "UseSelfDefault"
       /\ is_none(builder[f.ident].value) /\ ~found_with_errors(builder[f.ident])
    THEN Ok(DefaultValue(f.ty))
    ELSE validate(f.ty, builder[f.ident], f.ident)

\* the generated validation of the fields in declaration order; st holds
\* state.errors and the result of every field validated so far
validate_arguments(S, builder, j, errors, results) ==
    IF j > Len(Fields(S)) THEN [tag |-> "Fields", errors |-> errors, results |-> results]
    ELSE LET f == Fields(S)[j]
             r == validate_field(f, builder)
         IN  IF r.tag = "Panic" THEN r
             ELSE validate_arguments(S, builder, j + 1,
                     IF r.tag = "Err" THEN errors \o r.errors ELSE errors,
                     results @@ (f.ident :> r))

\* a validation that takes the container default whenever no error was
\* recorded for the record, occurrences or not
struct_validate_default_first(S, state, arg_name) ==
    IF ~found_with_errors(state) /\ ContainerDefault(S) = "UseSelfDefault"
    THEN Ok(DefaultValue(<<S>>))
    ELSE IF found_with_errors(state) THEN Err(state.errors)
    ELSE IF is_none(state.value)
    THEN Err(add_error(state, IF IsAttribute(S) THEN MissingAttribute(arg_name)
                              ELSE MissingArg(arg_name)).errors)
    ELSE LET st == validate_arguments(S, unwrap(state.value), 1, state.errors, <<>>) IN
         IF st.tag = "Panic" THEN st
         ELSE IF Len(st.errors) = 0
         THEN IF \E f \in Idents(S) : st.results[f].tag = "Err"
              THEN Panicked("failed to deserialize")
              ELSE Ok([f \in Idents(S) |-> st.results[f].val])
         ELSE Err(st.errors)

\* generate_validate: validate of a derived struct S
struct_validate(S, state, arg_name) ==
    IF is_none(state.value) /\ ~found_with_errors(state) /\ ContainerDefault(S) = "UseSelfDefault"
    THEN Ok(DefaultValue(<<S>>))
    ELSE IF found_with_errors(state) THEN Err(state.errors)
    ELSE IF is_none(state.value)
    THEN Err(add_error(state, IF IsAttribute(S) THEN MissingAttribute(arg_name)
                              ELSE MissingArg(arg_name)).errors)
    ELSE LET st == validate_arguments(S, unwrap(state.value), 1, state.errors, <<>>) IN
         IF st.tag = "Panic" THEN st
         ELSE IF Len(st.errors) = 0
         THEN IF \E f \in Idents(S) : st.results[f].tag = "Err"
              THEN Panicked("failed to deserialize")
              ELSE Ok([f \in Idents(S) |-> st.results[f].val])
         ELSE Err(st.errors)

\* T::validate for the declared type ty
validate(ty, state, arg_name) ==
    LET k == Head(ty) IN
    CASE k = "Option" -> Option_validate(Tail(ty), state, arg_name)
      [] k = "Vec" -> Vec_validate(Tail(ty), state, arg_name)
      [] k = "bool" -> bool_validate(state, arg_name)
      [] k = "String" \/ k \in IntegerTypes \cup FloatTypes -> required_validation(state, arg_name)
      [] OTHER -> struct_validate(k, state, arg_name)

\* ------------------------------------------------------------------------
\* Attribute::from_attrs (shared.rs 356-375) as a state machine: one step
\* per iteration of the loop over the attributes, one for the validation.
\* ------------------------------------------------------------------------
VARIABLES
    V,          \* the adapter, "Syn1" or "Syn2"
    Self,       \* the declared type from_attrs is called on
    location,   \* argument `location`
    attrs,      \* argument `attrs`
    i,          \* index of the next attribute of the loop
    result,     \* local `result`
    ret,        \* the returned value, or the panic
    pc,         \* "loop", "done" or "panic"
    call        \* a direct call of ArgResult::concat: type, arguments, outcome

vars == <<V, Self, location, attrs, i, result, ret, pc, call>>

\* from_attrs is running: nothing calls concat from outside
NoCall == [pc |-> "none"]

\* AttributeName for Option<T>: NAME = T::NAME
SelfNAME == NAME(Head(InitialType(Self)))

\* a loop that decodes every attribute whose path is a single identifier,
\* whatever the name
found_attribute_any_name(attr) == is_some(deserialize_attr_key(V, attr))

found_attribute(attr) ==
    LET maybe_key == deserialize_attr_key(V, attr) IN
    is_some(maybe_key) /\ unwrap(maybe_key) = SelfNAME

\* an attribute of another name: `continue`
from_attrs_continue ==
    /\ pc = "loop"
    /\ i <= Len(attrs)
    /\ ~found_attribute(attrs[i])
    /\ i' = i + 1
    /\ UNCHANGED <<V, Self, location, attrs, result, ret, pc, call>>

\* an attribute of this name: try_from_meta, then result.concat
from_attrs_concat ==
    /\ pc = "loop"
    /\ i <= Len(attrs)
    /\ found_attribute(attrs[i])
    /\ LET attr == try_from_meta(V, Self, attrs[i]) IN
       IF IsPanic(attr)
       THEN /\ pc' = "panic"
            /\ ret' = Panicked(attr.panic)
            /\ UNCHANGED <<i, result>>
       ELSE /\ result' = ArgResult_concat(Self, result, attr)
            /\ i' = i + 1
            /\ UNCHANGED <<ret, pc>>
    /\ UNCHANGED <<V, Self, location, attrs, call>>

\* after the loop: validate, then map_err(convert_error)
from_attrs_validate ==
    /\ pc = "loop"
    /\ i > Len(attrs)
    /\ LET maybe_attr == validate(Self, result, SelfNAME) IN
       /\ ret' = IF maybe_attr.tag = "Err"
                 THEN Err([j \in 1..Len(maybe_attr.errors) |->
                              convert_error(V, maybe_attr.errors[j])])
                 ELSE maybe_attr
       /\ pc' = IF maybe_attr.tag = "Panic" THEN "panic" ELSE "done"
    /\ UNCHANGED <<V, Self, location, attrs, i, result, call>>

\* from_attrs as a function of its arguments: the loop from attribute k on,
\* then the validation
RECURSIVE from_attrs_loop(_, _, _, _, _)
from_attrs_loop(v, ty, as, k, res) ==
    IF k > Len(as) THEN [result |-> res]
    ELSE LET maybe_key == deserialize_attr_key(v, as[k]) IN
         IF ~(is_some(maybe_key) /\ unwrap(maybe_key) = NAME(Head(InitialType(ty))))
         THEN from_attrs_loop(v, ty, as, k + 1, res)
         ELSE LET attr == try_from_meta(v, ty, as[k]) IN
              IF IsPanic(attr) THEN attr
              ELSE from_attrs_loop(v, ty, as, k + 1, ArgResult_concat(ty, res, attr))

from_attrs(v, ty, loc, as) ==
    LET merged == from_attrs_loop(v, ty, as, 1, ArgResult_new(loc)) IN
    IF IsPanic(merged) THEN Panicked(merged.panic)
    ELSE LET maybe_attr == validate(ty, merged.result, NAME(Head(InitialType(ty)))) IN
         IF maybe_attr.tag = "Err"
         THEN Err([j \in 1..Len(maybe_attr.errors) |-> convert_error(v, maybe_attr.errors[j])])
         ELSE maybe_attr

Next == from_attrs_continue \/ from_attrs_concat \/ from_attrs_validate

\* ------------------------------------------------------------------------
\* Inputs.  An input is a sequence of at most MaxAttrs attributes holding at
\* most MaxArgs arguments and MaxElems array elements in all.  Spans number
\* the nodes by position: <<0>> is the starting location, <<k>> attribute k,
\* <<k, j>> its argument j, <<k, j, 0, e>> element e of its array.
\* ------------------------------------------------------------------------
MaxAttrs == 2
MaxArgs == 2
MaxElems == 2

StartLocation == <<0>>

SeqUpTo(S, n) == UNION {[1..k -> S] : k \in 0..n}

RECURSIVE SpanExpr(_, _), SpanMeta(_, _)
SpanExpr(e, sp) ==
    [e EXCEPT !.span = sp,
              !.elems = [j \in 1..Len(e.elems) |-> SpanExpr(e.elems[j], Append(sp, j))]]
SpanMeta(m, sp) ==
    [m EXCEPT !.span = sp,
              !.value = SpanExpr(m.value, Append(sp, 0)),
              !.args = [j \in 1..Len(m.args) |-> SpanMeta(m.args[j], Append(sp, j))]]
SpanAttr(a, sp) ==
    [a EXCEPT !.span = sp,
              !.args = [j \in 1..Len(a.args) |-> SpanMeta(a.args[j], Append(sp, j))]]

RECURSIVE Elems(_), ElemsOfArgs(_, _)
\* number of array elements of an argument
Elems(m) == Len(m.value.elems) + ElemsOfArgs(m.args, 1)
ElemsOfArgs(ms, j) == IF j > Len(ms) THEN 0 ELSE Elems(ms[j]) + ElemsOfArgs(ms, j + 1)

\* an attribute of the input before its arguments are filled in: n is the
\* number of arguments it takes
Slot(shape, path, n) == [shape |-> shape, path |-> path, n |-> n]
Slots(others) == {Slot("List", <<"my_attr">>, n) : n \in 0..MaxArgs} \cup others

RECURSIVE SlotArgs(_, _)
SlotArgs(slots, j) == IF j = 0 THEN 0 ELSE slots[j].n + SlotArgs(slots, j - 1)

Fill(slots, args) ==
    [k \in 1..Len(slots) |->
        SpanAttr(Attr(slots[k].shape, slots[k].path,
                      SubSeq(args, SlotArgs(slots, k - 1) + 1, SlotArgs(slots, k))),
                 <<k>>)]

\* the sequences of slots taking n arguments in all
Shapes(others, n) ==
    {slots \in SeqUpTo(Slots(others), MaxAttrs) : SlotArgs(slots, Len(slots)) = n}

\* the sequences of arguments of an input
ArgLists(Args) == {args \in SeqUpTo(Args, MaxArgs) : ElemsOfArgs(args, 1) <= MaxElems}

\* an attribute of another name
Foreign == Slot("List", <<"other">>, 0)

\* the arguments both adapters can hand over
CommonArgs ==
    { NameValue("age", LitInt(1)), NameValue("age", LitInt(2)), NameValue("age", LitInt(300)),
      NameValue("name", LitStr("a")), Path("flag"),
      NameValue("ratio", LitFloat(15)), NameValue("ratio", LitInt(1)),
      NameValue("foo", LitInt(1)),
      List("list", <<NameValue("a", LitInt(1))>>),
      NameValueAt(<<"a", "b">>, LitInt(1)) }

\* Syn1 alone hands over a bare literal, Syn2 alone an array
ArgsOf(v) ==
    IF v = "Syn1" THEN CommonArgs \cup {BareLit(LitStr("a"))}
    ELSE CommonArgs \cup {NameValue("tags", ExprArray(<<LitStr("x")>>))}

Init ==
    /\ V \in {"Syn1", "Syn2"}
    /\ Self = <<"AllKinds">>
    /\ location = StartLocation
    /\ \E args \in ArgLists(ArgsOf(V)) :
           \E slots \in Shapes({Foreign}, Len(args)) : attrs = Fill(slots, args)
    /\ i = 1
    /\ result = ArgResult_new(location)
    /\ ret = [tag |-> "None"]
    /\ pc = "loop"
    /\ call = NoCall

Spec == Init /\ [][Next]_vars

\* the list-valued inputs: `tags = [..]` over three elements, one of them
\* not a string, and `tags = "x"`, which is not an array
ElemSet == {LitStr("x"), LitStr("y"), LitInt(5)}
ListArgsOf(v) ==
    IF v = "Syn1" THEN {NameValue("tags", LitStr("x"))}
    ELSE {NameValue("tags", ExprArray(es)) : es \in SeqUpTo(ElemSet, MaxElems)}
         \cup {NameValue("tags", LitStr("x"))}

InitList ==
    /\ V \in {"Syn1", "Syn2"}
    /\ Self = <<"Tags">>
    /\ location = StartLocation
    /\ \E args \in ArgLists(ListArgsOf(V)) :
           \E slots \in Shapes({Foreign}, Len(args)) : attrs = Fill(slots, args)
    /\ i = 1
    /\ result = ArgResult_new(location)
    /\ ret = [tag |-> "None"]
    /\ pc = "loop"
    /\ call = NoCall

SpecList == InitList /\ [][Next]_vars

\* the record-level inputs: Strict and Config, which declare a key override
\* (`n` for the field level), a field default (size), a nested list and, for
\* Config, a container default.  `level = 1` uses the identifier where the
\* key is `n`; `list = 1` supplies the nested list as a name-value pair;
\* `#[my_attr]` is an occurrence without an argument list, and so is, under
\* Syn2, an occurrence holding a bare literal (under Syn1 the literal is an
\* argument without a key, as in ArgsOf).
NotAList == Slot("Path", <<"my_attr">>, 0)

RecordArgs ==
    { NameValue("n", LitInt(1)), NameValue("n", LitInt(300)),
      NameValue("level", LitInt(1)), NameValue("size", LitInt(2)),
      List("list", <<NameValue("a", LitInt(1))>>),
      NameValue("list", LitInt(1)) }

RecordArgsOf(v) ==
    IF v = "Syn1" THEN RecordArgs ELSE RecordArgs \cup {BareLit(LitStr("a"))}

InitRecord ==
    /\ V \in {"Syn1", "Syn2"}
    /\ Self \in {<<"Strict">>, <<"Config">>, <<"Option", "Strict">>}
    /\ location = StartLocation
    /\ \E args \in ArgLists(RecordArgsOf(V)) :
           \E slots \in Shapes({Foreign, NotAList}, Len(args)) : attrs = Fill(slots, args)
    /\ i = 1
    /\ result = ArgResult_new(location)
    /\ ret = [tag |-> "None"]
    /\ pc = "loop"
    /\ call = NoCall

SpecRecord == InitRecord /\ [][Next]_vars

\* the inputs for the field declared with a default, size: supplied with a
\* valid value, with a value out of the range of u8, with a value that is
\* no literal (`size = some::path`, which Syn1 cannot parse), or not at all
DefaultArgs ==
    { NameValue("n", LitInt(1)), NameValue("size", LitInt(2)),
      NameValue("size", LitInt(300)), NameValue("size", ExprOther) }

InitDefault ==
    /\ V \in {"Syn1", "Syn2"}
    /\ Self \in {<<"Strict">>, <<"Config">>}
    /\ location = StartLocation
    /\ \E args \in ArgLists(DefaultArgs) :
           \E slots \in Shapes({Foreign}, Len(args)) : attrs = Fill(slots, args)
    /\ i = 1
    /\ result = ArgResult_new(location)
    /\ ret = [tag |-> "None"]
    /\ pc = "loop"
    /\ call = NoCall

SpecDefault == InitDefault /\ [][Next]_vars

\* the inputs with attributes of other macros between the occurrences:
\* `#[other(...)]` with or without arguments, `#[other]`, and
\* `#[other::my_attr()]`, whose path is no single identifier
MaxForeignAttrs == 3

ForeignList     == Slot("List", <<"other">>, 1)
ForeignPath     == Slot("Path", <<"other">>, 0)
ForeignNoIdent  == Slot("List", <<"other", "my_attr">>, 0)

ForeignArgs == { NameValue("n", LitInt(1)), NameValue("size", LitInt(2)) }

ForeignShapes(n) ==
    {slots \in SeqUpTo(Slots({Foreign, ForeignList, ForeignPath, ForeignNoIdent}),
                       MaxForeignAttrs) : SlotArgs(slots, Len(slots)) = n}

InitForeign ==
    /\ V \in {"Syn1", "Syn2"}
    /\ Self \in {<<"Strict">>, <<"Config">>, <<"Option", "Strict">>}
    /\ location = StartLocation
    /\ \E args \in ArgLists(ForeignArgs) :
           \E slots \in ForeignShapes(Len(args)) : attrs = Fill(slots, args)
    /\ i = 1
    /\ result = ArgResult_new(location)
    /\ ret = [tag |-> "None"]
    /\ pc = "loop"
    /\ call = NoCall

SpecForeign == InitForeign /\ [][Next]_vars

\* the inputs supplying one field up to MaxOrderArgs times over the
\* occurrences of the attribute, next to a second field
MaxOrderArgs == 3

OrderArgs ==
    { NameValue("age", LitInt(1)), NameValue("age", LitInt(300)),
      NameValue("ratio", LitFloat(15)) }

InitOrder ==
    /\ V \in {"Syn1", "Syn2"}
    /\ Self = <<"AllKinds">>
    /\ location = StartLocation
    /\ \E args \in SeqUpTo(OrderArgs, MaxOrderArgs) :
           \E slots \in Shapes({Foreign}, Len(args)) : attrs = Fill(slots, args)
    /\ i = 1
    /\ result = ArgResult_new(location)
    /\ ret = [tag |-> "None"]
    /\ pc = "loop"
    /\ call = NoCall

SpecOrder == InitOrder /\ [][Next]_vars

\* ------------------------------------------------------------------------
\* ArgResult::concat called directly, `self.concat(other)`, on two states of
\* the same type drawn from the states of a u8, a Vec<u8> and a MyList
\* accumulator: any value or none, at most MaxErrors errors, any location.
\* ------------------------------------------------------------------------
MaxErrors == 2

ConcatTypes == {<<"u8">>, <<"Vec", "u8">>, <<"MyList">>}
ErrorSet == {Error_new(<<1>>, InvalidType("u8")), Error_new(<<2>>, DuplicateArg)}
LocationSet == {<<1>>, <<2>>}

\* values of the InitialType of ty
ValuesOf(ty) ==
    CASE Head(ty) = "Vec" -> {<<>>, <<add_value(ArgResult_new(<<1>>), 1)>>}
      [] Head(ty) = "MyList" -> {[a |-> ArgResult_new(<<1>>)],
                                 [a |-> add_value(ArgResult_new(<<2>>), 1)]}
      [] OTHER -> {1, 2}

ArgResults(ty) ==
    [value : {None} \cup {Some(v) : v \in ValuesOf(ty)},
     errors : SeqUpTo(ErrorSet, MaxErrors),
     location : LocationSet]

InitConcat ==
    /\ V = "Syn2"
    /\ Self = <<"MyList">>
    /\ location = StartLocation
    /\ attrs = <<>>
    /\ i = 1
    /\ result = ArgResult_new(location)
    /\ ret = [tag |-> "None"]
    /\ pc = "idle"
    /\ \E T \in ConcatTypes : \E self \in ArgResults(T) : \E other \in ArgResults(T) :
           call = [pc |-> "call", T |-> T, self |-> self, other |-> other,
                   out |-> self]

\* self.concat(other): out is self after the call
ArgResult_concat_call ==
    /\ call.pc = "call"
    /\ call' = [call EXCEPT !.pc = "returned",
                            !.out = ArgResult_concat(call.T, call.self, call.other)]
    /\ UNCHANGED <<V, Self, location, attrs, i, result, ret, pc>>

NextConcat == ArgResult_concat_call

SpecConcat == InitConcat /\ [][NextConcat]_vars

\* ------------------------------------------------------------------------
\* What the properties speak about
\* ------------------------------------------------------------------------
\* the struct from_attrs decodes and its fields
SelfStruct == Head(InitialType(Self))
SelfFields == {Fields(SelfStruct)[j] : j \in 1..Len(Fields(SelfStruct))}

\* attribute k is an occurrence of the record with an argument list
Decoded(k) == found_attribute(attrs[k]) /\ is_some(deserialize_attr_args(V, attrs[k]))

\* the arguments of all the occurrences, in input order
RECURSIVE ArgsFrom(_)
ArgsFrom(k) ==
    IF k > Len(attrs) THEN <<>>
    ELSE (IF Decoded(k) THEN attrs[k].args ELSE <<>>) \o ArgsFrom(k + 1)
AllArgs == ArgsFrom(1)

HasKey(m, key) == deserialize_key(V, m) = Some(key)
\* the occurrences of a key, in input order
Occurrences(key) == SelectSeq(AllArgs, LAMBDA m : HasKey(m, key))
\* the arguments whose key no field is declared under
Unrecognized ==
    SelectSeq(AllArgs, LAMBDA m : is_some(deserialize_key(V, m))
                                  /\ \A f \in SelfFields : ~HasKey(m, f.key))

\* every attribute has been merged into result
Merged == pc \in {"loop", "done"} /\ i > Len(attrs)
\* the accumulator of a field in the merged builder
Accumulator(ident) == unwrap(result.value)[ident]

\* the leaf kinds, whose Concat is the default one with NO_DUPLICATES = true
Scalar(f) == Head(InitialType(f.ty)) \in {"String", "bool"} \cup IntegerTypes \cup FloatTypes

\* the errors returned by from_attrs hold the conversion of error e
Returned(e) == \E j \in 1..Len(ret.errors) : ret.errors[j] = convert_error(V, e)
\* how many of the errors returned by from_attrs are the conversion of e
TimesReturned(e) == Cardinality({j \in 1..Len(ret.errors) : ret.errors[j] = convert_error(V, e)})

\* every error phase a recorded in a state of type ty: its own errors, those
\* of the elements of a list and those of the fields of a nested builder
RECURSIVE Recorded(_, _)
Recorded(ty, state) ==
    LET k == Head(InitialType(ty))
        own == {state.errors[j] : j \in 1..Len(state.errors)}
    IN  IF is_none(state.value) THEN own
        ELSE IF k = "Vec"
        THEN own \cup UNION {Recorded(Tail(InitialType(ty)), unwrap(state.value)[j])
                                : j \in 1..Len(unwrap(state.value))}
        ELSE IF k \in Structs
        THEN own \cup UNION {Recorded(FieldOf(k, id).ty, unwrap(state.value)[id]) : id \in Idents(k)}
        ELSE own

\* a field that must be supplied: not an Option, not a bool, no default
Required(f) == Head(f.ty) \notin {"Option", "bool"} /\ f.default = "None"

Count(errors, kind) == Cardinality({j \in 1..Len(errors) : errors[j].msg.kind = kind})

\* the errors as from_attrs hands them over
Converted(errors) == [j \in 1..Len(errors) |-> convert_error(V, errors[j])]

\* ------------------------------------------------------------------------
\* C1 (as amended).  When two found occurrences of a NO_DUPLICATES = true
\* field are merged, the retained value is the second occurrence's value if
\* the second occurrence carries one (the default Concat overwrites), and
\* the first occurrence's value otherwise.
\* ------------------------------------------------------------------------
C1_RetainedValue ==
    Merged =>
        \A f \in SelfFields :
            LET occ == Occurrences(f.key) IN
            (Scalar(f) /\ Len(occ) = 2) =>
                LET first == try_from_meta(V, f.ty, occ[1])
                    second == try_from_meta(V, f.ty, occ[2])
                IN  Accumulator(f.ident).value =
                        IF is_some(second.value) THEN second.value ELSE first.value

\* two occurrences with different values have been merged, and the second
\* value is the one stored
C1_Witness ==
    /\ Merged
    /\ Len(Occurrences("age")) = 2
    /\ LET first == try_from_meta(V, <<"u8">>, Occurrences("age")[1])
           second == try_from_meta(V, <<"u8">>, Occurrences("age")[2])
       IN  /\ is_some(first.value) /\ is_some(second.value)
           /\ first.value /= second.value
           /\ Accumulator("age").value = second.value

\* C1 as stated: the retained value is the first occurrence's value
C1_FirstValueRetained ==
    Merged =>
        \A f \in SelfFields :
            LET occ == Occurrences(f.key) IN
            (Scalar(f) /\ Len(occ) = 2) =>
                LET first == try_from_meta(V, f.ty, occ[1]) IN
                is_some(first.value) => Accumulator(f.ident).value = first.value

\* ------------------------------------------------------------------------
\* C2.  Merging two found occurrences of a NO_DUPLICATES = true field adds
\* exactly one DuplicateArg error to the field's accumulator, between the
\* errors of the first and of the second occurrence and located at the
\* second, whether each occurrence carried a value or an error; validation
\* of the field then fails, and so does the record.
\* ------------------------------------------------------------------------
C2_OneDuplicateError ==
    Merged =>
        \A f \in SelfFields :
            LET occ == Occurrences(f.key) IN
            (Scalar(f) /\ Len(occ) = 2) =>
                LET first == try_from_meta(V, f.ty, occ[1])
                    second == try_from_meta(V, f.ty, occ[2])
                    acc == Accumulator(f.ident)
                IN  /\ acc.errors = first.errors
                                    \o <<Error_new(get_span(occ[2]), DuplicateArg)>>
                                    \o second.errors
                    /\ Count(acc.errors, "DuplicateArg") = 1
                    /\ validate_field(f, unwrap(result.value)).tag = "Err"
                    /\ pc = "done" => ret.tag = "Err"

\* a field supplied twice, once with a value and once with an error, has
\* one DuplicateArg error and the record has failed
C2_Witness ==
    /\ pc = "done"
    /\ Len(Occurrences("age")) = 2
    /\ is_some(Accumulator("age").value)
    /\ Count(Accumulator("age").errors, "InvalidType") = 1
    /\ Count(Accumulator("age").errors, "DuplicateArg") = 1
    /\ ret.tag = "Err"

\* ------------------------------------------------------------------------
\* C3 (as stated).  After an unrecognized key the record is not aborted: the
\* returned errors hold the InvalidArg error of the unrecognized argument
\* together with the errors of every invalid or missing field.
\* ------------------------------------------------------------------------
C3_UnrecognizedKeyKeepsFieldErrors ==
    (pc = "done" /\ Len(Unrecognized) > 0) =>
        /\ ret.tag = "Err"
        /\ \A j \in 1..Len(Unrecognized) :
               Returned(Error_new(get_span(Unrecognized[j]), InvalidArg))
        /\ \A f \in SelfFields :
               LET r == validate_field(f, unwrap(result.value)) IN
               r.tag = "Err" => \A j \in 1..Len(r.errors) : Returned(r.errors[j])

\* ------------------------------------------------------------------------
\* C4 (as stated).  When every argument has a recognized key, the returned
\* error list holds every error phase a recorded on a field or on a list
\* element, over all occurrences, and one MissingArg error per required
\* field that was never supplied.
\* ------------------------------------------------------------------------
C4_NoRecordedErrorDropped ==
    (pc = "done" /\ Len(Unrecognized) = 0 /\ is_some(result.value)) =>
        \A f \in SelfFields :
            LET occ == Occurrences(f.key) IN
            /\ \A j \in 1..Len(occ) :
                   \A e \in Recorded(f.ty, try_from_meta(V, f.ty, occ[j])) :
                       ret.tag = "Err" /\ Returned(e)
            /\ (Required(f) /\ Len(occ) = 0) =>
                   /\ ret.tag = "Err"
                   /\ TimesReturned(Error_new(Accumulator(f.ident).location,
                                              MissingArg(f.ident))) = 1

\* ------------------------------------------------------------------------
\* C5 (as stated).  Decoding never panics: whatever the arguments and the
\* declared fields, from_attrs returns Ok(record) or Err(errors).
\* ------------------------------------------------------------------------
C5_NeverPanics == pc /= "panic"

\* ------------------------------------------------------------------------
\* C6 (as stated).  Under each adapter a bool field that is never supplied
\* validates to false, and one supplied as a bare flag validates to true.
\* ------------------------------------------------------------------------
\* the only argument of the input is the bare flag `flag`
OnlyBareFlag ==
    Len(AllArgs) = 1 /\ AllArgs[1].shape = "Path" /\ AllArgs[1].path = <<"flag">>

C6_BoolFlag ==
    \A f \in SelfFields :
        (Head(f.ty) = "bool" /\ f.key = "flag") =>
            /\ (Merged /\ is_some(result.value) /\ ~\E j \in 1..Len(AllArgs) : AllArgs[j].path = <<"flag">>)
                   => validate_field(f, unwrap(result.value)) = Ok(FALSE)
            /\ OnlyBareFlag =>
                   /\ pc /= "panic"
                   /\ Merged => validate_field(f, unwrap(result.value)) = Ok(TRUE)

\* ------------------------------------------------------------------------
\* C7 (as stated).  Phase a of a float field uses the adapter's float
\* extraction: where deserialize_float yields a value the field holds it
\* with no error, and where it yields None the field holds exactly one
\* InvalidType error naming the float type.
\* ------------------------------------------------------------------------
C7_FloatExtraction ==
    Merged =>
        \A f \in SelfFields :
            LET occ == Occurrences(f.key) IN
            (Head(f.ty) \in FloatTypes /\ Len(occ) = 1) =>
                LET x == deserialize_float(V, Head(f.ty), occ[1])
                    acc == Accumulator(f.ident)
                IN  IF is_some(x)
                    THEN acc.value = x /\ acc.errors = <<>>
                    ELSE /\ acc.value = None
                         /\ acc.errors = <<Error_new(get_span(occ[1]), InvalidType(Head(f.ty)))>>

\* ------------------------------------------------------------------------
\* C8.  Merging n >= 1 occurrences of a list-valued field, each a
\* well-formed array, yields after validation the concatenation of the
\* occurrences' elements in occurrence order, with no DuplicateArg error.
\* ------------------------------------------------------------------------
\* an array literal whose elements are all string literals
StringArray(m) ==
    IsLit(m, "Array") /\ \A j \in 1..Len(m.value.elems) : m.value.elems[j].kind = "Str"

RECURSIVE Concatenation(_, _)
Concatenation(occ, k) ==
    IF k > Len(occ) THEN <<>>
    ELSE [j \in 1..Len(occ[k].value.elems) |-> occ[k].value.elems[j].s]
         \o Concatenation(occ, k + 1)

C8_ListConcatenation ==
    Merged =>
        \A f \in SelfFields :
            LET occ == Occurrences(f.key) IN
            (f.ty = <<"Vec", "String">> /\ Len(occ) >= 1
             /\ \A k \in 1..Len(occ) : StringArray(occ[k])) =>
                /\ Count(Accumulator(f.ident).errors, "DuplicateArg") = 0
                /\ validate_field(f, unwrap(result.value)) = Ok(Concatenation(occ, 1))
                /\ (pc = "done" /\ ret.tag = "Ok") => ret.val[f.ident] = Concatenation(occ, 1)

\* two occurrences in two attributes, decoded to their concatenation
C8_Witness ==
    /\ pc = "done"
    /\ Len(Occurrences("tags")) = 2
    /\ Cardinality({k \in 1..Len(attrs) : Decoded(k) /\ Len(attrs[k].args) = 1}) = 2
    /\ Concatenation(Occurrences("tags"), 1) = <<"x", "y">>
    /\ ret.tag = "Ok"
    /\ ret.val.tags = <<"x", "y">>

\* ------------------------------------------------------------------------
\* C9.  A Vec<String> field supplied as one array of k elements of which m fail
\* phase a: if m > 0 validation fails with exactly m errors and no
\* sequence, if m = 0 it returns the k validated elements in input order.
\* ------------------------------------------------------------------------
C9_ElementErrors ==
    Merged =>
        \A f \in SelfFields :
            LET occ == Occurrences(f.key) IN
            (f.ty = <<"Vec", "String">> /\ Len(occ) = 1 /\ IsLit(occ[1], "Array")) =>
                LET array == unwrap(deserialize_array(V, occ[1]).ret)
                    failed == {j \in 1..Len(array) :
                                 found_with_errors(try_from_meta(V, Tail(f.ty), array[j]))}
                    m == Cardinality(failed)
                    r == validate_field(f, unwrap(result.value))
                IN  /\ m > 0 => /\ r.tag = "Err"
                                /\ Len(r.errors) = m
                                /\ (pc = "done" /\ Len(AllArgs) = 1) =>
                                       ret.tag = "Err" /\ Len(ret.errors) = m
                    /\ m = 0 => /\ r = Ok([j \in 1..Len(array) |-> array[j].value.s])
                                /\ (pc = "done" /\ Len(AllArgs) = 1) =>
                                       ret.tag = "Ok" /\ Len(ret.val[f.ident]) = Len(array)

\* one array of two elements, the first of which fails: one error returned
C9_Witness ==
    /\ pc = "done"
    /\ Len(AllArgs) = 1
    /\ IsLit(AllArgs[1], "Array")
    /\ Len(AllArgs[1].value.elems) = 2
    /\ AllArgs[1].value.elems[1].kind = "Int"
    /\ AllArgs[1].value.elems[2].kind = "Str"
    /\ ret.tag = "Err"
    /\ Len(ret.errors) = 1

\* ------------------------------------------------------------------------
\* C10.  Whenever from_attrs returns for a record with an argument of
\* unknown key, it returns Err, and the returned list holds exactly one
\* InvalidArg error for that argument, whatever the other fields hold.
\* ------------------------------------------------------------------------
C10_OneUnrecognizedError ==
    (pc = "done" /\ Len(Unrecognized) > 0) =>
        /\ ret.tag = "Err"
        /\ \A j \in 1..Len(Unrecognized) :
               TimesReturned(Error_new(get_span(Unrecognized[j]), InvalidArg)) = 1

\* an unknown key next to an invalid field: the record has failed
C10_Witness ==
    /\ pc = "done"
    /\ Len(Unrecognized) = 1
    /\ Len(Occurrences("age")) = 1
    /\ found_with_errors(Accumulator("age"))
    /\ ret.tag = "Err"
    /\ TimesReturned(Error_new(get_span(Unrecognized[1]), InvalidArg)) = 1

\* ------------------------------------------------------------------------
\* C11.  Validation of Option<T>, for a field and for the record from_attrs
\* is called on: a state holding a value validates to T's validation of that
\* state, wrapped in Some when it succeeds and T's errors when it fails; a
\* state with no value and no error validates to Ok(None); a state with no
\* value but errors fails with exactly those errors.
\* ------------------------------------------------------------------------
\* what Option<T> makes of the state, T's validation being inner
OptionOf(state, inner) ==
    IF is_some(state.value)
    THEN IF inner.tag = "Ok" THEN Ok(Some(inner.val)) ELSE Err(inner.errors)
    ELSE IF Len(state.errors) = 0 THEN Ok(None)
    ELSE Err(state.errors)

C11_OptionValidation ==
    /\ (Merged /\ is_some(result.value)) =>
           \A f \in SelfFields :
               Head(f.ty) = "Option" =>
                   LET acc == Accumulator(f.ident)
                       inner == validate(Tail(f.ty), acc, f.ident)
                   IN  inner.tag /= "Panic" =>
                           validate_field(f, unwrap(result.value)) = OptionOf(acc, inner)
    /\ (pc = "done" /\ Head(Self) = "Option") =>
           LET inner == validate(Tail(Self), result, SelfNAME)
               expected == OptionOf(result, inner)
           IN  ret = IF expected.tag = "Err" THEN Err(Converted(expected.errors))
                     ELSE expected

\* an Option field that was never supplied is None in the returned record
C11_Witness ==
    /\ pc = "done"
    /\ Self = <<"Config">>
    /\ Len(Occurrences("list")) = 0
    /\ Len(AllArgs) > 0
    /\ ret.tag = "Ok"
    /\ ret.val.list = None

\* ------------------------------------------------------------------------
\* C12.  from_attrs called on Config, the record declaring a container-level
\* default, with an attribute list holding no attribute of its name,
\* returns Ok(<Config as Default>::default()): no error at all.
\* ------------------------------------------------------------------------
\* no attribute of the input is an occurrence of the record
ZeroOccurrences == \A k \in 1..Len(attrs) : ~found_attribute(attrs[k])

C12_DefaultOnZeroOccurrences ==
    (pc = "done" /\ Self = <<"Config">> /\ ZeroOccurrences) =>
        /\ ret.tag = "Ok"
        /\ ret.val = [level |-> 0, size |-> 0, list |-> None]
        /\ ret.val = DefaultValue(Self)
        /\ result.errors = <<>>

\* only attributes of another name were given, and the default came back
C12_Witness ==
    /\ pc = "done"
    /\ Self = <<"Config">>
    /\ Len(attrs) = 2
    /\ ZeroOccurrences
    /\ ret = Ok(DefaultValue(<<"Config">>))

\* ------------------------------------------------------------------------
\* C13.  Without a container-level default, zero occurrences fail with
\* exactly one error at the location the accumulator was created with:
\* from_attrs on Strict returns one MissingAttribute("my_attr") error at its
\* `location` argument, and the nested list of Strict, never supplied,
\* validates to one MissingArg("list") error at the span of the occurrence
\* its builder was created for.
\* ------------------------------------------------------------------------
\* the first occurrence that was decoded into a builder
FirstDecoded == CHOOSE k \in 1..Len(attrs) : Decoded(k) /\ \A j \in 1..(k - 1) : ~Decoded(j)

C13_MissingOnZeroOccurrences ==
    /\ (pc = "done" /\ Self = <<"Strict">> /\ ZeroOccurrences) =>
           ret = Err(<<convert_error(V, Error_new(location, MissingAttribute("my_attr")))>>)
    /\ (Merged /\ Self = <<"Strict">> /\ is_some(result.value)
        /\ Len(Occurrences("list")) = 0) =>
           LET missing == Error_new(get_span(attrs[FirstDecoded]), MissingArg("list")) IN
           /\ validate_field(FieldOf("Strict", "list"), unwrap(result.value)) = Err(<<missing>>)
           /\ (pc = "done" /\ Len(result.errors) = 0) =>
                  ret.tag = "Err" /\ TimesReturned(missing) = 1

\* Strict given only attributes of another name: one MissingAttribute error
C13_Witness ==
    /\ pc = "done"
    /\ Self = <<"Strict">>
    /\ Len(attrs) > 0
    /\ ZeroOccurrences
    /\ ret.tag = "Err"
    /\ Len(ret.errors) = 1
    /\ ret.errors[1].span = StartLocation
    /\ ret.errors[1].message = Display(MissingAttribute("my_attr"))

\* the nested list of Strict was never supplied: its MissingArg is returned
C13_NestedReached ==
    /\ pc = "done"
    /\ Self = <<"Strict">>
    /\ is_some(result.value)
    /\ Len(result.errors) = 0
    /\ Len(Occurrences("list")) = 0
    /\ Len(attrs) = 2 /\ ~Decoded(1) /\ Decoded(2)
    /\ Returned(Error_new(<<2>>, MissingArg("list")))

\* ------------------------------------------------------------------------
\* C14 (as stated).  The errors a record returns for its fields are ordered
\* by the declaration order of the fields and, within a field, by the order
\* of the occurrences in the input, whatever the order of the keys in the
\* input; the returned list is the conversion, error by error, of the list
\* the validation of the merged state yields.
\* ------------------------------------------------------------------------
\* the argument an error located below attribute k, argument j belongs to
ArgumentAt(loc) == attrs[loc[1]].args[loc[2]]

\* the declaration index of the field an error of the record is about: a
\* missing field is named by the error, located at the attribute; any other
\* error is located at or below an argument of the field's key
FieldIndex(e) ==
    LET fs == Fields(SelfStruct) IN
    IF Len(e.location) = 1
    THEN CHOOSE j \in 1..Len(fs) : fs[j].ident = e.msg.arg
    ELSE CHOOSE j \in 1..Len(fs) : HasKey(ArgumentAt(e.location), fs[j].key)

\* e1 is not about a later occurrence than e2
NotLater(e1, e2) ==
    \/ Len(e1.location) = 1
    \/ Len(e2.location) = 1
    \/ e1.location[1] < e2.location[1]
    \/ e1.location[1] = e2.location[1] /\ e1.location[2] <= e2.location[2]

C14_ErrorOrder ==
    (pc = "done" /\ ret.tag = "Err" /\ is_some(result.value) /\ Len(result.errors) = 0) =>
        LET errors == validate(Self, result, SelfNAME).errors IN
        /\ ret.errors = Converted(errors)
        /\ \A p \in 1..Len(errors) : \A q \in (p + 1)..Len(errors) :
               /\ FieldIndex(errors[p]) <= FieldIndex(errors[q])
               /\ FieldIndex(errors[p]) = FieldIndex(errors[q]) =>
                      NotLater(errors[p], errors[q])

\* ------------------------------------------------------------------------
\* C15.  Every validation returns Ok(value) or Err with a non-empty error
\* list: the validation of every field of the merged builder, and from_attrs
\* itself; the `expect` of the record assembly never meets an Err.
\* ------------------------------------------------------------------------
\* a result that is Ok, or Err with at least one error
OkOrErrors(r) == r.tag = "Ok" \/ (r.tag = "Err" /\ Len(r.errors) > 0)

C15_ErrIsNeverEmpty ==
    /\ (Merged /\ is_some(result.value)) =>
           \A f \in SelfFields : OkOrErrors(validate_field(f, unwrap(result.value)))
    /\ Merged => OkOrErrors(validate(Self, result, SelfNAME))
    /\ pc = "done" => OkOrErrors(ret)
    /\ pc = "panic" => ret.panic /= "failed to deserialize"

\* the nested record was assembled from fields that all validated to Ok,
\* while the enclosing record failed with a non-empty list
C15_Witness ==
    /\ pc = "done"
    /\ Len(Occurrences("list")) = 1
    /\ validate_field(FieldOf("AllKinds", "list"), unwrap(result.value)) = Ok(Some([a |-> 1]))
    /\ ret.tag = "Err"
    /\ Len(ret.errors) > 0

\* ------------------------------------------------------------------------
\* C16.  required_validation, the validation of every plain required field
\* (String, integer and float types): a merged state with errors fails with
\* exactly those errors even when it also holds a value; a state with no
\* value and no error fails with exactly one MissingArg error naming the
\* field; any other state succeeds with the stored value.
\* ------------------------------------------------------------------------
\* the fields validated by required_validation alone
PlainRequired(f) ==
    /\ Len(f.ty) = 1
    /\ Head(f.ty) \in {"String"} \cup IntegerTypes \cup FloatTypes
    /\ f.default = "None"

C16_RequiredRule ==
    (Merged /\ is_some(result.value)) =>
        \A f \in SelfFields :
            PlainRequired(f) =>
                LET acc == Accumulator(f.ident)
                    r == validate_field(f, unwrap(result.value))
                IN  /\ Len(acc.errors) > 0 => r = Err(acc.errors)
                    /\ (Len(acc.errors) = 0 /\ is_none(acc.value)) =>
                           r = Err(<<Error_new(acc.location, MissingArg(f.ident))>>)
                    /\ (Len(acc.errors) = 0 /\ is_some(acc.value)) =>
                           r = Ok(unwrap(acc.value))

\* age was given an invalid and then a valid value: the state holds the
\* value and two errors, and validation fails with the two errors
C16_Witness ==
    /\ Merged
    /\ is_some(result.value)
    /\ Accumulator("age").value = Some(1)
    /\ Len(Accumulator("age").errors) = 2
    /\ Accumulator("age").errors[1].msg = InvalidType("u8")
    /\ validate_field(FieldOf("AllKinds", "age"), unwrap(result.value))
           = Err(Accumulator("age").errors)

\* ------------------------------------------------------------------------
\* C17.  When the attribute occurs several times, each occurrence a list
\* and no key supplied by two of them, from_attrs returns what it returns
\* for the single occurrence holding all their arguments in the same order:
\* the same record, or errors with the same messages in the same order; no
\* DuplicateArg error comes from the repetition of the attribute.
\* ------------------------------------------------------------------------
\* the occurrences of the attribute in the input
Found == {k \in 1..Len(attrs) : found_attribute(attrs[k])}
KeysOf(k) == {attrs[k].args[j].path : j \in 1..Len(attrs[k].args)}
DisjointOccurrences ==
    /\ Cardinality(Found) >= 2
    /\ \A k \in Found : Decoded(k)
    /\ \A k1, k2 \in Found : k1 /= k2 => KeysOf(k1) \cap KeysOf(k2) = {}

\* the single occurrence holding all the arguments
SingleOccurrence == <<SpanAttr(Attr("List", <<SelfNAME>>, AllArgs), <<1>>)>>

Messages(errors) == [j \in 1..Len(errors) |-> errors[j].message]

C17_OccurrencesAsOne ==
    (pc \in {"done", "panic"} /\ DisjointOccurrences) =>
        LET single == from_attrs(V, Self, location, SingleOccurrence) IN
        /\ ret.tag = single.tag
        /\ ret.tag = "Ok" => ret.val = single.val
        /\ ret.tag = "Err" =>
               /\ Messages(ret.errors) = Messages(single.errors)
               /\ (\E j \in 1..Len(ret.errors) : ret.errors[j].message = Display(DuplicateArg))
                      => \E f \in SelfFields : Len(Occurrences(f.key)) >= 2
        /\ ret.tag = "Panic" => ret.panic = single.panic

\* two occurrences, one with the level and one with the list, decoded to
\* the record that the single occurrence with both arguments yields
C17_Witness ==
    /\ pc = "done"
    /\ Self = <<"Strict">>
    /\ DisjointOccurrences
    /\ Len(Occurrences("n")) = 1
    /\ Len(Occurrences("list")) = 1
    /\ ret = Ok([level |-> 1, size |-> 0, list |-> [a |-> 1]])
    /\ ret = from_attrs(V, Self, location, SingleOccurrence)

\* ------------------------------------------------------------------------
\* C18.  ArgResult::concat loses no error: after self.concat(other) the
\* errors of self are its previous errors, then at most one DuplicateArg
\* error, then all the errors of other in their order.
\* ------------------------------------------------------------------------
C18_ConcatKeepsErrors ==
    call.pc = "returned" =>
        LET before == call.self.errors
            added == call.other.errors
            after == call.out.errors
            n == Len(after) - Len(before) - Len(added)
        IN  /\ n \in {0, 1}
            /\ SubSeq(after, 1, Len(before)) = before
            /\ SubSeq(after, Len(before) + n + 1, Len(after)) = added
            /\ n = 1 => after[Len(before) + 1].msg = DuplicateArg

\* both states hold errors and a duplicate is recorded between them
C18_Witness ==
    /\ call.pc = "returned"
    /\ call.T = <<"u8">>
    /\ Len(call.self.errors) = 2
    /\ Len(call.other.errors) = 2
    /\ call.self.errors /= call.other.errors
    /\ is_some(call.other.value)
    /\ Len(call.out.errors) = 5
    /\ call.out.errors =
           call.self.errors \o <<Error_new(call.other.location, DuplicateArg)>>
                            \o call.other.errors

\* ------------------------------------------------------------------------
\* C19.  ArgResult::concat adopts the location of other exactly when other
\* is found (holds a value or an error); the DuplicateArg error the merge
\* records is located at other's location; when other is not found the
\* location of self is unchanged.
\* ------------------------------------------------------------------------
C19_ConcatLocation ==
    call.pc = "returned" =>
        LET n == Len(call.out.errors) - Len(call.self.errors) - Len(call.other.errors) IN
        /\ is_found(call.other) => call.out.location = call.other.location
        /\ ~is_found(call.other) => call.out.location = call.self.location
        /\ n = 1 => call.out.errors[Len(call.self.errors) + 1]
                        = Error_new(call.other.location, DuplicateArg)
        /\ (is_found(call.self) /\ is_found(call.other) /\ call.T = <<"u8">>) => n = 1

\* a found state merged into a found state located elsewhere: the location
\* moves and the duplicate is reported at the new one
C19_Witness ==
    /\ call.pc = "returned"
    /\ call.T = <<"u8">>
    /\ call.self.location = <<1>>
    /\ call.other.location = <<2>>
    /\ is_some(call.self.value)
    /\ is_some(call.other.value)
    /\ call.self.errors = <<>>
    /\ call.out.location = <<2>>
    /\ call.out.errors = <<Error_new(<<2>>, DuplicateArg)>>

\* ------------------------------------------------------------------------
\* C20.  A node that must be a list and is not one ends phase a for that
\* node at once: an occurrence of the attribute whose arguments cannot be
\* taken, and an argument supplied for the nested list that is not a list,
\* decode to no value and exactly one error, located at the node; nothing
\* below the node is decoded, so no error is located below it.
\* ------------------------------------------------------------------------
\* the state phase a yields for a node it gives up on
ShortCircuited(state, node) ==
    /\ state.value = None
    /\ Len(state.errors) = 1
    /\ state.errors[1].location = get_span(node)
    /\ state.location = get_span(node)

\* the span lies strictly below the node
Below(span, node) ==
    /\ Len(span) > Len(get_span(node))
    /\ SubSeq(span, 1, Len(get_span(node))) = get_span(node)

C20_NotAListShortCircuits ==
    /\ \A k \in 1..Len(attrs) :
           (found_attribute(attrs[k]) /\ is_none(deserialize_attr_args(V, attrs[k]))) =>
               /\ ShortCircuited(try_from_meta(V, Self, attrs[k]), attrs[k])
               /\ (pc = "done" /\ \A j \in 1..Len(attrs) : j /= k => ~found_attribute(attrs[j])) =>
                      /\ ret.tag = "Err"
                      /\ Len(ret.errors) = 1
                      /\ ret.errors[1].span = get_span(attrs[k])
               /\ pc = "done" =>
                      /\ ret.tag = "Err"
                      /\ Cardinality({j \in 1..Len(ret.errors) :
                                         ret.errors[j].span = get_span(attrs[k])}) = 1
                      /\ \A j \in 1..Len(ret.errors) : ~Below(ret.errors[j].span, attrs[k])
    /\ \A j \in 1..Len(AllArgs) :
           (HasKey(AllArgs[j], "list") /\ is_none(deserialize_list_args(V, AllArgs[j]))) =>
               /\ ShortCircuited(try_from_meta(V, <<"MyList">>, AllArgs[j]), AllArgs[j])
               /\ (Merged /\ Len(Occurrences("list")) = 1) =>
                      ShortCircuited(Accumulator("list"), AllArgs[j])

\* an occurrence whose arguments end with a bare literal, which Syn2 cannot
\* take as a list: one error at the attribute, none for the invalid `n = 300`
C20_Witness ==
    /\ pc = "done"
    /\ V = "Syn2"
    /\ Len(attrs) = 1
    /\ found_attribute(attrs[1])
    /\ Len(attrs[1].args) = 2
    /\ attrs[1].args[1].path = <<"n">>
    /\ attrs[1].args[1].value.n = 300
    /\ attrs[1].args[2].shape = "Lit"
    /\ ret.tag = "Err"
    /\ Len(ret.errors) = 1
    /\ ret.errors[1].span = <<1>>

\* ------------------------------------------------------------------------
\* C21 (as stated).  The error recorded for a node that is not a list where
\* a list is required, an occurrence of the attribute or the argument of a
\* nested list, has the kind FailedToParseAttr, and from_attrs returns it
\* with that kind's message.
\* ------------------------------------------------------------------------
C21_NotAListIsParseFailure ==
    /\ \A k \in 1..Len(attrs) :
           (found_attribute(attrs[k]) /\ is_none(deserialize_attr_args(V, attrs[k]))) =>
               /\ \A j \in 1..Len(try_from_meta(V, Self, attrs[k]).errors) :
                      try_from_meta(V, Self, attrs[k]).errors[j].msg = FailedToParseAttr
               /\ pc = "done" =>
                      \A j \in 1..Len(ret.errors) :
                          ret.errors[j].span = get_span(attrs[k]) =>
                              ret.errors[j].message = Display(FailedToParseAttr)
    /\ \A j \in 1..Len(AllArgs) :
           (HasKey(AllArgs[j], "list") /\ is_none(deserialize_list_args(V, AllArgs[j]))) =>
               \A e \in 1..Len(try_from_meta(V, <<"MyList">>, AllArgs[j]).errors) :
                   try_from_meta(V, <<"MyList">>, AllArgs[j]).errors[e].msg = FailedToParseAttr

\* ------------------------------------------------------------------------
\* C22.  A field declared with a default (size): a merged state with no
\* value and no error validates to the default, and no error is reported
\* for the field; a state with errors, with or without a value, fails with
\* those errors, which from_attrs returns; a state with a value and no
\* error validates to the supplied value.
\* ------------------------------------------------------------------------
C22_FieldDefault ==
    (Merged /\ is_some(result.value)) =>
        \A f \in SelfFields :
            f.default = "UseSelfDefault" =>
                LET acc == Accumulator(f.ident)
                    r == validate_field(f, unwrap(result.value))
                IN  /\ (is_none(acc.value) /\ Len(acc.errors) = 0) =>
                           /\ r = Ok(0)
                           /\ (pc = "done" /\ ret.tag = "Ok") => ret.val[f.ident] = 0
                           /\ (pc = "done" /\ ret.tag = "Err") =>
                                  \A j \in 1..Len(ret.errors) :
                                      ret.errors[j].message /= Display(MissingArg(f.ident))
                    /\ Len(acc.errors) > 0 =>
                           /\ r = Err(acc.errors)
                           /\ (pc = "done" /\ Len(result.errors) = 0) =>
                                  /\ ret.tag = "Err"
                                  /\ \A j \in 1..Len(acc.errors) : Returned(acc.errors[j])
                    /\ (is_some(acc.value) /\ Len(acc.errors) = 0) =>
                           /\ r = Ok(unwrap(acc.value))
                           /\ (pc = "done" /\ ret.tag = "Ok") =>
                                  ret.val[f.ident] = unwrap(acc.value)

\* size is not supplied and the record is returned with the default size
C22_Witness ==
    /\ pc = "done"
    /\ Self = <<"Config">>
    /\ Len(Occurrences("n")) = 1
    /\ Len(Occurrences("size")) = 0
    /\ ret.tag = "Ok"
    /\ ret.val.size = 0
    /\ ret.val.level = 1

\* ------------------------------------------------------------------------
\* C23.  The container-level default of Config is used only for zero
\* occurrences.  With at least one occurrence, even `#[my_attr()]`, the
\* result is that of the normal validation: the record-level errors if
\* there are any, else the errors of the fields, among them one MissingArg
\* for the required field level when it was never supplied, else the record
\* of the validated fields.
\* ------------------------------------------------------------------------
C23_DefaultOnlyWithoutOccurrence ==
    (pc = "done" /\ Self = <<"Config">> /\ ~ZeroOccurrences) =>
        /\ Len(result.errors) > 0 => ret = Err(Converted(result.errors))
        /\ Len(result.errors) = 0 =>
               /\ is_some(result.value)
               /\ Len(Occurrences("n")) = 0 =>
                      /\ ret.tag = "Err"
                      /\ TimesReturned(Error_new(get_span(attrs[FirstDecoded]),
                                                 MissingArg("level"))) = 1
               /\ ret.tag = "Ok" =>
                      \A f \in SelfFields :
                          Ok(ret.val[f.ident]) = validate_field(f, unwrap(result.value))
               /\ ret.tag = "Err" =>
                      \E f \in SelfFields :
                          validate_field(f, unwrap(result.value)).tag = "Err"

\* one occurrence with an empty argument list: the default is not returned,
\* the missing level is reported
C23_Witness ==
    /\ pc = "done"
    /\ Self = <<"Config">>
    /\ Len(attrs) = 1
    /\ Decoded(1)
    /\ Len(attrs[1].args) = 0
    /\ ret.tag = "Err"
    /\ Len(ret.errors) = 1
    /\ ret.errors[1] = convert_error(V, Error_new(<<1>>, MissingArg("level")))

\* ------------------------------------------------------------------------
\* C24 (as stated).  For a required field that is never supplied, from_attrs
\* returns a MissingArg error whose name is the key the field is matched
\* under (its `name = "..."` override, else its identifier).  The generated
\* validate passes the field's identifier instead, so the statement fails
\* for level, which is matched under `n`.
\* ------------------------------------------------------------------------
C24_MissingArgNamesKey ==
    (pc = "done" /\ is_some(result.value) /\ Len(result.errors) = 0) =>
        \A f \in SelfFields :
            (Required(f) /\ Len(Occurrences(f.key)) = 0) =>
                /\ ret.tag = "Err"
                /\ \E j \in 1..Len(ret.errors) :
                       ret.errors[j].message = Display(MissingArg(f.key))

\* ------------------------------------------------------------------------
\* C25.  from_attrs decodes only the attributes named NAME.  An attribute
\* of another name, or whose path is no single identifier, contributes
\* nothing: at every step the accumulated state is the one obtained from
\* the attributes named NAME among those already visited, and the result of
\* from_attrs is its result on the input with the other attributes removed.
\* ------------------------------------------------------------------------
Named(attr) == attr.path = <<SelfNAME>>
Own(as) == SelectSeq(as, Named)

C25_ForeignSkipped ==
    /\ pc = "loop" =>
           result = from_attrs_loop(V, Self, Own(SubSeq(attrs, 1, i - 1)), 1,
                                    ArgResult_new(location)).result
    /\ pc = "done" => ret = from_attrs(V, Self, location, Own(attrs))

\* `#[my_attr(n = 1)] #[other::my_attr()] #[my_attr(size = 2)]` on Config
C25_Witness ==
    /\ pc = "done"
    /\ Self = <<"Config">>
    /\ Len(attrs) = 3
    /\ Named(attrs[1]) /\ Len(attrs[1].args) = 1
    /\ attrs[2].path = <<"other", "my_attr">>
    /\ Named(attrs[3]) /\ Len(attrs[3].args) = 1
    /\ ret.tag = "Ok"
    /\ ret.val.level = 1
    /\ ret.val.size = 2

====
